---------------------------- MODULE Spec2Model ----------------------------
(***************************************************************************)
(* A model of memex, a documentation-repository helper:                    *)
(*   - memex taxa add/rm   (src/memex/scripts/taxa.py), alone and as two   *)
(*     processes side by side                                              *)
(*   - the rule matcher    (src/memex/scripts/new.py)                      *)
(*   - the title generator (src/memex/utils/title.py)                      *)
(*   - memex yfm touch     (src/memex/scripts/yfm.py)                      *)
(*   - memex new           (src/memex/scripts/new.py)                      *)
(*                                                                         *)
(* Text is a sequence of one-character strings.  A Python dict is a        *)
(* sequence of [k, v] records with distinct keys, in insertion order.      *)
(***************************************************************************)
EXTENDS Integers, Sequences, FiniteSets, TLC

VARIABLES
    \* ---- memex taxa
    file,       \* docs/_data/taxonomy.yml: [state, content]
    call,       \* the last taxa command: its arguments, the file before it, its report
    prevAdd,    \* the command before `call`, when it was a completed add of one value
    procs,      \* procs[p]: a `memex taxa` process that runs beside the others
    history,    \* per section, the keys in the order they were last inserted in,
                \* and the key that was removed last
    \* ---- rule matcher
    rule_run,   \* [folder, rules, done, out]: one call of _infer_categories_for_folder
    \* ---- title generator
    title_run,  \* [slug, acronym_map, lil_words, done, out]: one call of title_from_filename
    \* ---- memex yfm touch
    disk,       \* the markdown files: a sequence of texts (path i holds disk[i])
    prevText,   \* prevText[i]: the text of path i before touch last wrote it
    writes,     \* writes[i]: how often touch wrote path i (counted up to MaxWrites)
    tpc,        \* "idle" | "run" | "crashed": the position of touch_cmd
    ti,         \* the index in `paths` of the file touch_cmd handles next
    report,     \* report[i]: what the running (or last) touch_cmd echoed for path i
    \* ---- memex new
    docs,       \* the files under docs/<folder>/: a dict name -> content
    backups,    \* the backup files: a dict <<name, stamp>> -> content
    npc,        \* "idle" | "exists" | "backup" | "backing" | "write" | "writing" |
                \* "done" | "failed": the position of new_cmd
    nargs,      \* the arguments and the values new_cmd computed from them
    nerr,       \* the error new_cmd failed with ("" when none)
    \* ---- shared
    now         \* the clock, in seconds

taxaVars  == <<file, call, prevAdd, procs, history>>
ruleVars  == <<rule_run>>
titleVars == <<title_run>>
touchVars == <<disk, prevText, writes, tpc, ti, report>>
newVars   == <<docs, backups, npc, nargs, nerr>>
vars      == <<file, call, prevAdd, procs, history, rule_run, title_run,
               disk, prevText, writes, tpc, ti, report,
               docs, backups, npc, nargs, nerr, now>>

(***************************************************************************)
(* Bounds of the model.                                                    *)
(***************************************************************************)
MaxVals  == 2   \* values given to one taxa command
MaxRules == 2   \* rules in dir_rules
MaxSlug  == 4   \* characters of a slug given to the title generator
MaxDoc   == 4   \* atoms of a markdown file
MaxBatch == 2   \* files given to one touch command
MaxClock == 2   \* seconds the clock advances
MaxWrites == 2  \* writes of one file that are counted
MaxRaceVals == 1 \* values given to one of two concurrent taxa commands
MaxStoreVals == 1 \* values given to one taxa command whose history is kept

(***************************************************************************)
(* Sequences and Python dicts.                                             *)
(***************************************************************************)
SeqsUpTo(S, n) == UNION {[1..m -> S] : m \in 0..n}

Range(s) == {s[i] : i \in DOMAIN s}

RECURSIVE Concat(_)
Concat(ss) == IF ss = <<>> THEN <<>> ELSE Head(ss) \o Concat(Tail(ss))

\* `k in d`
HasKey(d, k) == \E i \in DOMAIN d : d[i].k = k

\* `d[k]`, for a key of d
Get(d, k) == d[CHOOSE i \in DOMAIN d : d[i].k = k].v

\* `d[k] = v`: a new key goes last, an old key keeps its place
Put(d, k, v) ==
    IF HasKey(d, k)
    THEN [i \in DOMAIN d |-> IF d[i].k = k THEN [k |-> k, v |-> v] ELSE d[i]]
    ELSE Append(d, [k |-> k, v |-> v])

\* `del d[k]`
Del(d, k) == SelectSeq(d, LAMBDA e : e.k # k)

Keys(d) == [i \in DOMAIN d |-> d[i].k]

DistinctKeys(d) == \A i, j \in DOMAIN d : d[i].k = d[j].k => i = j

(***************************************************************************)
(* memex taxa.                                                             *)
(*                                                                         *)
(* The taxonomy file is [state, content]: state is "absent", "corrupt"     *)
(* (not parsable) or "ok"; content is the top-level mapping, a dict from   *)
(* section name to section, a section being [null, entries]: null for a    *)
(* section stored with no value (`tags:`), else entries is the dict of the *)
(* section.  A stored value is a string; Null stands for YAML's null.      *)
(***************************************************************************)
Null == "~"

Values == {"a", "b"}

Sections == {"categories", "tags"}

NoSection == [null |-> FALSE, entries |-> <<>>]

\* load_yaml: {} when the file is absent, not parsable, or empty
load_yaml(f) == IF f.state = "ok" THEN f.content ELSE <<>>

\* A variant of LoadTaxonomy that never finds a stored taxonomy.
LoadTaxonomyEmpty(f) == <<>>

\* _load_taxonomy
LoadTaxonomy(f) == load_yaml(f)

\* _save_taxonomy: the whole content is written
SaveTaxonomy(content) == [state |-> "ok", content |-> content]

\* A variant of SectionOf that takes the sections for each other.
SectionOfSwapped(kind) == IF kind = "cats" THEN "tags" ELSE "categories"

\* section = "categories" if kind == "cats" else "tags"
SectionOf(kind) == IF kind = "cats" THEN "categories" ELSE "tags"

\* taxonomy_content.setdefault(section, {})
SetDefaultSection(content, section) ==
    IF HasKey(content, section) THEN content ELSE Append(content, [k |-> section, v |-> NoSection])

\* A variant of AddValue that inserts the new key first.
AddValueFront(st, value) ==
    IF ~HasKey(st.d, value)
    THEN [d |-> <<[k |-> value, v |-> value]>> \o st.d,
          changed |-> Append(st.changed, value), skipped |-> st.skipped]
    ELSE [st EXCEPT !.skipped = Append(st.skipped, value)]

\* A variant of AddValue that reports the newest value first.
AddValueReportFirst(st, value) ==
    IF ~HasKey(st.d, value)
    THEN [d |-> Put(st.d, value, value),
          changed |-> <<value>> \o st.changed, skipped |-> st.skipped]
    ELSE [st EXCEPT !.skipped = <<value>> \o st.skipped]

\* A variant of AddValue that stores the new key with no value.
AddValueNull(st, value) ==
    IF ~HasKey(st.d, value)
    THEN [d |-> Put(st.d, value, Null),
          changed |-> Append(st.changed, value), skipped |-> st.skipped]
    ELSE [st EXCEPT !.skipped = Append(st.skipped, value)]

\* One value of an add: [d, changed, skipped] after it.
AddValue(st, value) ==
    IF ~HasKey(st.d, value)
    THEN [d |-> Put(st.d, value, value),
          changed |-> Append(st.changed, value), skipped |-> st.skipped]
    ELSE [st EXCEPT !.skipped = Append(st.skipped, value)]

\* A variant of RmValue that reports the removal and keeps the key.
RmValueKeep(st, value) ==
    LET popped == IF HasKey(st.d, value) THEN Get(st.d, value) ELSE Null
    IN  IF popped # Null
        THEN [d |-> st.d, changed |-> Append(st.changed, value), skipped |-> st.skipped]
        ELSE [d |-> st.d, changed |-> st.changed, skipped |-> Append(st.skipped, value)]

\* One value of an rm: section_dict.pop(value, None) is not None
RmValue(st, value) ==
    LET popped == IF HasKey(st.d, value) THEN Get(st.d, value) ELSE Null
        d2     == Del(st.d, value)
    IN  IF popped # Null
        THEN [d |-> d2, changed |-> Append(st.changed, value), skipped |-> st.skipped]
        ELSE [d |-> d2, changed |-> st.changed, skipped |-> Append(st.skipped, value)]

\* for value in values: ...
RECURSIVE UpdateLoop(_, _, _)
UpdateLoop(st, action, values) ==
    IF values = <<>> THEN st
    ELSE UpdateLoop(IF action = "add" THEN AddValue(st, Head(values))
                    ELSE RmValue(st, Head(values)),
                    action, Tail(values))

\* A variant of UpdateTaxonomy that gives up when the file does not load.
UpdateTaxonomyStrict(f, kind, action, values) ==
    LET content == SetDefaultSection(LoadTaxonomy(f), SectionOf(kind))
        sec     == Get(content, SectionOf(kind))
        st      == UpdateLoop([d |-> sec.entries, changed |-> <<>>, skipped |-> <<>>],
                              action, values)
    IN  IF f.state # "ok" \/ (sec.null /\ values # <<>>)
        THEN [file |-> f, changed |-> <<>>, skipped |-> <<>>, outcome |-> "raised"]
        ELSE [file |-> SaveTaxonomy(Put(content, SectionOf(kind),
                                        [null |-> sec.null, entries |-> st.d])),
              changed |-> st.changed, skipped |-> st.skipped, outcome |-> "ok"]

\* _update_taxonomy: [file, changed, skipped, outcome].  A section stored as
\* null makes the first `in` / `pop` raise, before anything is saved.
UpdateTaxonomy(f, kind, action, values) ==
    LET content == SetDefaultSection(LoadTaxonomy(f), SectionOf(kind))
        sec     == Get(content, SectionOf(kind))
        st      == UpdateLoop([d |-> sec.entries, changed |-> <<>>, skipped |-> <<>>],
                              action, values)
    IN  IF sec.null /\ values # <<>>
        THEN [file |-> f, changed |-> <<>>, skipped |-> <<>>, outcome |-> "raised"]
        ELSE [file |-> SaveTaxonomy(Put(content, SectionOf(kind),
                                        [null |-> sec.null, entries |-> st.d])),
              changed |-> st.changed, skipped |-> st.skipped, outcome |-> "ok"]

NoAdd == [valid |-> FALSE, kind |-> "cats", v |-> "a", before |-> [state |-> "absent", content |-> <<>>]]

\* What the next command remembers of `call`.
Remember(c) ==
    IF c.outcome = "ok" /\ c.action = "add" /\ Len(c.values) = 1
    THEN [valid |-> TRUE, kind |-> c.kind, v |-> c.values[1], before |-> c.before]
    ELSE NoAdd

\* add_cmd / rm_cmd: no value is a usage error, else _update_taxonomy
TaxaCmd(kind, action, values) ==
    LET r == UpdateTaxonomy(file, kind, action, values)
    IN  /\ prevAdd' = Remember(call)
        /\ IF values = <<>>
           THEN /\ file' = file
                /\ call' = [kind |-> kind, action |-> action, values |-> values,
                            before |-> file, changed |-> <<>>, skipped |-> <<>>,
                            outcome |-> "usage"]
           ELSE /\ file' = r.file
                /\ call' = [kind |-> kind, action |-> action, values |-> values,
                            before |-> file, changed |-> r.changed,
                            skipped |-> r.skipped, outcome |-> r.outcome]

AddCmd ==
    /\ \E kind \in {"cats", "tags"}, values \in SeqsUpTo(Values, MaxVals) :
          TaxaCmd(kind, "add", values)
    /\ UNCHANGED <<procs, history, ruleVars, titleVars, touchVars, newVars, now>>

RmCmd ==
    /\ \E kind \in {"cats", "tags"}, values \in SeqsUpTo(Values, MaxVals) :
          TaxaCmd(kind, "rm", values)
    /\ UNCHANGED <<procs, history, ruleVars, titleVars, touchVars, newVars, now>>


(***************************************************************************)
(* memex taxa with the history of its sections kept beside it: a value     *)
(* reported as added goes to the end of its section's order, a value       *)
(* reported as removed leaves it, the last one being remembered.           *)
(***************************************************************************)
Without(order, vs) == SelectSeq(order, LAMBDA k : k \notin Range(vs))

Track(h, c) ==
    LET section == IF c.kind = "cats" THEN "categories" ELSE "tags"
    IN  IF c.outcome # "ok" THEN h
        ELSE IF c.action = "add"
        THEN [h EXCEPT !.order[section] = Without(@, c.changed) \o c.changed]
        ELSE [order   |-> [h.order EXCEPT ![section] = Without(@, c.changed)],
              removed |-> IF c.changed = <<>> THEN h.removed
                          ELSE <<section, c.changed[Len(c.changed)]>>]

\* the history of a taxonomy file whose commands are yet to come: its keys
\* as stored
HistoryOf(f) ==
    [order |-> [s \in Sections |->
                   IF HasKey(load_yaml(f), s) THEN Keys(Get(load_yaml(f), s).entries)
                   ELSE <<>>],
     removed |-> <<>>]

\* no history is kept
NoHistory == [order |-> [s \in Sections |-> <<>>], removed |-> <<>>]

StoreAdd ==
    /\ \E kind \in {"cats", "tags"}, values \in SeqsUpTo(Values, MaxStoreVals) :
          TaxaCmd(kind, "add", values)
    /\ history' = Track(history, call')
    /\ UNCHANGED <<procs, ruleVars, titleVars, touchVars, newVars, now>>

StoreRm ==
    /\ \E kind \in {"cats", "tags"}, values \in SeqsUpTo(Values, MaxStoreVals) :
          TaxaCmd(kind, "rm", values)
    /\ history' = Track(history, call')
    /\ UNCHANGED <<procs, ruleVars, titleVars, touchVars, newVars, now>>

(***************************************************************************)
(* The states memex taxa starts from: any taxonomy file over Values.       *)
(***************************************************************************)
\* the dicts with distinct keys from K and values from V(k)
DictsOver(K, V(_)) ==
    {d \in SeqsUpTo([k : K, v : UNION {V(k) : k \in K}], Cardinality(K)) :
        DistinctKeys(d) /\ \A i \in DOMAIN d : d[i].v \in V(d[i].k)}

\* a key is stored with itself as its value; "a" may also be stored with none
StoredValues(k) == IF k = "a" THEN {k, Null} ELSE {k}

SectionStates ==
    {[null |-> TRUE, entries |-> <<>>]}
        \cup {[null |-> FALSE, entries |-> d] : d \in DictsOver(Values, StoredValues)}

TaxonomyContents ==
    {c \in SeqsUpTo([k : Sections, v : SectionStates], Cardinality(Sections)) : DistinctKeys(c)}

TaxonomyFiles ==
    {[state |-> "absent", content |-> <<>>], [state |-> "corrupt", content |-> <<>>]}
        \cup {[state |-> "ok", content |-> c] : c \in TaxonomyContents}

(***************************************************************************)
(* Two memex taxa processes side by side.  A process is [pc, kind, action, *)
(* values, seen, mem, changed, skipped, alone, rank]: pc is "idle",        *)
(* "loaded" (the file read and the values applied in memory), "saving"     *)
(* (the file opened for writing, so empty), "done" or "failed"; seen is    *)
(* the file it read and mem the file it is about to write; alone tells     *)
(* that no other process was under way when it read the file; rank is its  *)
(* place among the finished writers.                                       *)
(***************************************************************************)
Procs == {1, 2}

EmptyFile == [state |-> "ok", content |-> <<>>]

CorruptFile == [state |-> "corrupt", content |-> <<>>]

NoProc == [pc |-> "idle", kind |-> "cats", action |-> "add", values |-> <<>>,
           seen |-> EmptyFile, mem |-> EmptyFile, changed |-> <<>>, skipped |-> <<>>,
           alone |-> FALSE, rank |-> 0]

NoProcs == [p \in Procs |-> NoProc]

UnderWay(p) == procs[p].pc \in {"loaded", "saving"}

\* _update_taxonomy up to the save: the file is read and the values are
\* applied to the copy in memory
RaceLoad(p) ==
    /\ procs[p].pc = "idle"
    /\ \E kind \in {"cats", "tags"}, action \in {"add", "rm"},
          values \in SeqsUpTo(Values, MaxRaceVals) \ {<<>>} :
          LET r == UpdateTaxonomy(file, kind, action, values)
          IN  procs' = [procs EXCEPT ![p] =
                  [pc |-> IF r.outcome = "ok" THEN "loaded" ELSE "failed",
                   kind |-> kind, action |-> action, values |-> values,
                   seen |-> file, mem |-> r.file, changed |-> r.changed, skipped |-> r.skipped,
                   alone |-> \A q \in Procs \ {p} : ~UnderWay(q),
                   rank |-> 0]]
    /\ UNCHANGED <<file, call, prevAdd, history>>
    /\ UNCHANGED <<ruleVars, titleVars, touchVars, newVars, now>>

\* _save_taxonomy: write_text opens the file, which empties it
RaceSaveOpen(p) ==
    /\ procs[p].pc = "loaded"
    /\ file' = EmptyFile
    /\ procs' = [procs EXCEPT ![p].pc = "saving"]
    /\ UNCHANGED <<call, prevAdd, history>>
    /\ UNCHANGED <<ruleVars, titleVars, touchVars, newVars, now>>

\* _save_taxonomy: the dumped taxonomy reaches the file, from its first
\* byte on.  When another process wrote the file since this one opened it,
\* what lies behind this one's bytes stays: the file then holds this
\* process's taxonomy, the other's, or nothing that parses.
RaceSave(p) ==
    /\ procs[p].pc = "saving"
    /\ file' \in (IF file = EmptyFile THEN {procs[p].mem}
                  ELSE {procs[p].mem, file, CorruptFile})
    /\ procs' = [procs EXCEPT ![p].pc = "done",
                              ![p].rank = 1 + Cardinality({q \in Procs : procs[q].pc = "done"})]
    /\ UNCHANGED <<call, prevAdd, history>>
    /\ UNCHANGED <<ruleVars, titleVars, touchVars, newVars, now>>

\* the taxonomy files two processes are started on
RaceSections == {<<>>, <<[k |-> "a", v |-> "a"]>>,
                 <<[k |-> "a", v |-> "a"], [k |-> "b", v |-> "b"]>>}

RaceFiles ==
    {[state |-> "absent", content |-> <<>>]}
        \cup {[state |-> "ok",
               content |-> <<[k |-> "categories", v |-> [null |-> FALSE, entries |-> c]],
                             [k |-> "tags", v |-> [null |-> FALSE, entries |-> t]]>>] :
                 c \in RaceSections, t \in RaceSections}

\* the taxonomy files in which every key is stored with itself as its value
IdentityFiles ==
    {f \in TaxonomyFiles :
        \A i \in DOMAIN f.content :
            \A j \in DOMAIN f.content[i].v.entries :
                f.content[i].v.entries[j].v = f.content[i].v.entries[j].k}

NoCall(f) == [kind |-> "cats", action |-> "add", values |-> <<>>, before |-> f,
              changed |-> <<>>, skipped |-> <<>>, outcome |-> "none"]

TaxaIdle == /\ file = [state |-> "absent", content |-> <<>>]
            /\ call = NoCall(file)
            /\ prevAdd = NoAdd
            /\ procs = NoProcs
            /\ history = NoHistory

TaxaInit == /\ file \in TaxonomyFiles
            /\ call = NoCall(file)
            /\ prevAdd = NoAdd
            /\ procs = NoProcs
            /\ history = NoHistory


(***************************************************************************)
(* Text: sequences of one-character strings.                               *)
(***************************************************************************)
Letters == <<"a", "b", "c", "d", "e", "f", "g", "h", "i", "j", "k", "l", "m",
             "n", "o", "p", "q", "r", "s", "t", "u", "v", "w", "x", "y", "z">>

Caps    == <<"A", "B", "C", "D", "E", "F", "G", "H", "I", "J", "K", "L", "M",
             "N", "O", "P", "Q", "R", "S", "T", "U", "V", "W", "X", "Y", "Z">>

Whitespace == {" ", "\t", "\n"}

Digits == {"0", "1", "2", "3", "4", "5", "6", "7", "8", "9"}

LowerChar(c) ==
    IF \E i \in DOMAIN Caps : Caps[i] = c
    THEN Letters[CHOOSE i \in DOMAIN Caps : Caps[i] = c] ELSE c

UpperChar(c) ==
    IF \E i \in DOMAIN Letters : Letters[i] = c
    THEN Caps[CHOOSE i \in DOMAIN Letters : Letters[i] = c] ELSE c

\* str.lower
Lower(s) == [i \in DOMAIN s |-> LowerChar(s[i])]

\* str.capitalize: the first character upper case, the rest lower case
Capitalize(s) == [i \in DOMAIN s |-> IF i = 1 THEN UpperChar(s[i]) ELSE LowerChar(s[i])]

\* str.strip
RECURSIVE LStrip(_)
LStrip(s) == IF s # <<>> /\ Head(s) \in Whitespace THEN LStrip(Tail(s)) ELSE s

RECURSIVE RStrip(_)
RStrip(s) ==
    IF s # <<>> /\ s[Len(s)] \in Whitespace THEN RStrip(SubSeq(s, 1, Len(s) - 1)) ELSE s

Strip(s) == RStrip(LStrip(s))

\* str.startswith
StartsWith(s, p) == Len(p) <= Len(s) /\ SubSeq(s, 1, Len(p)) = p

\* str.endswith
EndsWith(s, p) == Len(p) <= Len(s) /\ SubSeq(s, Len(s) - Len(p) + 1, Len(s)) = p

\* sep.join(words)
RECURSIVE Join(_, _)
Join(words, sep) ==
    IF words = <<>> THEN <<>>
    ELSE IF Len(words) = 1 THEN words[1]
    ELSE words[1] \o sep \o Join(Tail(words), sep)

(***************************************************************************)
(* The rule matcher.  dir_rules is a dict pattern -> rule; a rule is       *)
(* [shape, cats]: "notdict" (the rule is no mapping), "nocats" (a mapping  *)
(* without `categories`), "null" / "str" (`categories` holds null / a      *)
(* string, cats its characters) or "list" (cats holds the list).           *)
(***************************************************************************)
\* _dedup_preserving_order
RECURSIVE DedupLoop(_, _, _)
DedupLoop(items, seen, out) ==
    IF items = <<>> THEN out
    ELSE IF Head(items) \notin seen
         THEN DedupLoop(Tail(items), seen \cup {Head(items)}, Append(out, Head(items)))
         ELSE DedupLoop(Tail(items), seen, out)

dedup_preserving_order(items) == DedupLoop(items, {}, <<>>)

\* A variant of WantPrefix without the closing slash.
WantPrefixNoSlash(folder) == <<"d", "o", "c", "s", "/">> \o folder

\* want_prefix = f"docs/{folder}/"
WantPrefix(folder) == <<"d", "o", "c", "s", "/">> \o folder \o <<"/">>

\* rule.get("categories") or [], kept when it is a list
RuleCats(rule) == IF rule.shape = "list" THEN rule.cats ELSE <<>>

\* for pattern, rule in dir_rules.items(): ...
RECURSIVE InferLoop(_, _, _)
InferLoop(want_prefix, rules, inferred) ==
    IF rules = <<>> THEN inferred
    ELSE LET pattern == Head(rules).k
             rule    == Head(rules).v
         IN  InferLoop(want_prefix, Tail(rules),
                 IF /\ rule.shape \notin {"notdict", "nocats"}
                    /\ StartsWith(pattern, want_prefix)
                 THEN inferred \o RuleCats(rule)
                 ELSE inferred)

\* _infer_categories_for_folder
infer_categories_for_folder(folder, dir_rules) ==
    dedup_preserving_order(InferLoop(WantPrefix(folder), dir_rules, <<>>))

Folders == {<<"a">>, <<"a", "b">>, <<>>}

Patterns == {<<"d", "o", "c", "s", "/", "a", "/", "*", "*">>,
             <<"d", "o", "c", "s", "/", "a", "b", "/", "*", "*">>,
             <<"d", "o", "c", "s", "/", "a">>,
             <<"d", "o", "c", "s", "/", "/", "x">>}

CatLists == {<<>>, <<"X">>, <<"Y", "X">>, <<"X", "X">>}

Rules == {[shape |-> "notdict", cats |-> <<>>], [shape |-> "nocats", cats |-> <<>>],
          [shape |-> "null", cats |-> <<>>], [shape |-> "str", cats |-> <<"X">>]}
             \cup {[shape |-> "list", cats |-> c] : c \in CatLists}

DirRules == {d \in SeqsUpTo([k : Patterns, v : Rules], MaxRules) : DistinctKeys(d)}

RuleIdle == rule_run = [folder |-> <<>>, rules |-> <<>>, done |-> FALSE, out |-> <<>>]

RuleInit == rule_run \in [folder : Folders, rules : DirRules, done : {FALSE}, out : {<<>>}]

InferCategories ==
    /\ ~rule_run.done
    /\ rule_run' = [rule_run EXCEPT
                       !.done = TRUE,
                       !.out = infer_categories_for_folder(rule_run.folder, rule_run.rules)]
    /\ UNCHANGED <<taxaVars, titleVars, touchVars, newVars, now>>

(***************************************************************************)
(* The title generator.                                                    *)
(***************************************************************************)
Separators == {"-", "_"}

\* re.split("[-_]", s): the pieces between the separators, empty ones kept
RECURSIVE SplitLoop(_, _, _)
SplitLoop(s, cur, out) ==
    IF s = <<>> THEN Append(out, cur)
    ELSE IF Head(s) \in Separators THEN SplitLoop(Tail(s), <<>>, Append(out, cur))
    ELSE SplitLoop(Tail(s), Append(cur, Head(s)), out)

re_split(s) == SplitLoop(s, <<>>, <<>>)

\* `low in lil_words`
InList(l, x) == \E i \in DOMAIN l : l[i] = x

\* A variant of TitleWord that keeps a little word lower case at any index.
TitleWordLilFirst(i, word, acronym_map, lil_words) ==
    LET low == Lower(word)
    IN  IF HasKey(acronym_map, low) THEN Get(acronym_map, low)
        ELSE IF InList(lil_words, low) THEN low
        ELSE Capitalize(low)

\* the body of the loop: the word appended for token `word` at index i (from 0)
TitleWord(i, word, acronym_map, lil_words) ==
    LET low == Lower(word)
    IN  IF HasKey(acronym_map, low) THEN Get(acronym_map, low)
        ELSE IF InList(lil_words, low) /\ i # 0 THEN low
        ELSE Capitalize(low)

\* for i, word in enumerate(slug_list): ...
RECURSIVE TitleLoop(_, _, _, _, _)
TitleLoop(slug_list, i, acronym_map, lil_words, process) ==
    IF i >= Len(slug_list) THEN process
    ELSE TitleLoop(slug_list, i + 1, acronym_map, lil_words,
                   Append(process, TitleWord(i, slug_list[i + 1], acronym_map, lil_words)))

\* title_from_filename
title_from_filename(slug, acronym_map, lil_words) ==
    Join(TitleLoop(re_split(Strip(slug)), 0, acronym_map, lil_words, <<>>), <<" ">>)

SlugChars == {"t", "T", "g", "-", "_", " "}

AcronymMaps == {<<>>,
                <<[k |-> <<"g">>, v |-> <<"G", "G">>]>>,
                <<[k |-> <<"t">>, v |-> <<"t", "T">>], [k |-> <<"T">>, v |-> <<"x">>]>>,
                <<[k |-> <<>>, v |-> <<"e">>]>>}

LilWordLists == {<<>>, << <<"t">> >>, << <<"t">>, <<"g">>, <<>> >>}

TitleIdle == title_run = [slug |-> <<>>, acronym_map |-> <<>>, lil_words |-> <<>>,
                          done |-> FALSE, out |-> <<>>]

TitleInit == title_run \in [slug : SeqsUpTo(SlugChars, MaxSlug), acronym_map : AcronymMaps,
                            lil_words : LilWordLists, done : {FALSE}, out : {<<>>}]

TitleFromFilename ==
    /\ ~title_run.done
    /\ title_run' = [title_run EXCEPT
                        !.done = TRUE,
                        !.out = title_from_filename(title_run.slug, title_run.acronym_map,
                                                    title_run.lil_words)]
    /\ UNCHANGED <<taxaVars, ruleVars, touchVars, newVars, now>>


(***************************************************************************)
(* The clock.  now_str() is the clock's value to the second.               *)
(***************************************************************************)
Tick ==
    /\ now < MaxClock
    /\ now' = now + 1
    /\ UNCHANGED <<taxaVars, ruleVars, titleVars, touchVars, newVars>>

(***************************************************************************)
(* Markdown text and YAML front matter.                                    *)
(*                                                                         *)
(* A text is a sequence of atoms [t, k, v]:                                *)
(*   t = "delim"  the three characters ---                                 *)
(*   t = "text"   characters that hold no --- and are no `key: value` line *)
(*   t = "line"   one entry `k: v` of a YAML block mapping                 *)
(* A stored value v is [ty, s, n, items, st]: a string (ty = "str", the    *)
(* word s, or for a timestamp the second n) written plain or quoted, or a  *)
(* list (ty = "list") written in block or flow style.  A value in memory   *)
(* is [ty, s, n, items, flow], flow telling a FlowList from a list.        *)
(***************************************************************************)
NoVal == [ty |-> "str", s |-> "", n |-> 0, items |-> <<>>, st |-> "plain"]

Delim == [t |-> "delim", k |-> "", v |-> NoVal]

Text == [t |-> "text", k |-> "", v |-> NoVal]

Line(k, v) == [t |-> "line", k |-> k, v |-> v]

StrVal(s, st) == [ty |-> "str", s |-> s, n |-> 0, items |-> <<>>, st |-> st]

ListVal(items, st) == [ty |-> "list", s |-> "", n |-> 0, items |-> items, st |-> st]

\* the string now_str() returns at second t, in memory
NowStr(t) == [ty |-> "str", s |-> "time", n |-> t, items |-> <<>>, flow |-> FALSE]

\* yaml.safe_load of one stored value: the style is not part of the value
LoadValue(v) == [ty |-> v.ty, s |-> v.s, n |-> v.n, items |-> v.items, flow |-> FALSE]

\* FlowList(x)
FlowList(x) == [x EXCEPT !.flow = TRUE]

\* yaml.dump of one value: a FlowList and an empty list in flow style, any
\* other list in block style, a string plain
DumpValue(x) ==
    [ty |-> x.ty, s |-> x.s, n |-> x.n, items |-> x.items,
     st |-> IF x.ty = "list"
            THEN (IF x.flow \/ x.items = <<>> THEN "flow" ELSE "block")
            ELSE "plain"]

\* yaml.dump(fm, sort_keys=False): one line per key, in the dict's order
YamlDump(fm) == [i \in DOMAIN fm |-> Line(fm[i].k, DumpValue(fm[i].v))]

\* yaml.safe_load(fm_text) or {}: [kind, fm].  Lines alone are a mapping (a
\* key stored twice keeps its first place and its last value), nothing is
\* the empty mapping, text alone is a scalar; lines mixed with text do not parse.
RECURSIVE LoadLines(_, _)
LoadLines(atoms, fm) ==
    IF atoms = <<>> THEN fm
    ELSE LoadLines(Tail(atoms), Put(fm, Head(atoms).k, LoadValue(Head(atoms).v)))

YamlLoad(atoms) ==
    IF \A i \in DOMAIN atoms : atoms[i].t = "line"
    THEN [kind |-> "mapping", fm |-> LoadLines(atoms, <<>>)]
    ELSE IF \A i \in DOMAIN atoms : atoms[i].t = "text"
    THEN [kind |-> "scalar", fm |-> <<>>]
    ELSE [kind |-> "error", fm |-> <<>>]

\* text.split("---", maxsplit): cut at the first maxsplit delimiters
RECURSIVE SplitDelimLoop(_, _, _, _)
SplitDelimLoop(text, maxsplit, cur, out) ==
    IF text = <<>> THEN Append(out, cur)
    ELSE IF maxsplit > 0 /\ Head(text).t = "delim"
         THEN SplitDelimLoop(Tail(text), maxsplit - 1, <<>>, Append(out, cur))
         ELSE SplitDelimLoop(Tail(text), maxsplit, Append(cur, Head(text)), out)

\* A variant of SplitDelim that cuts at the first and at the last delimiter.
SplitDelimLast(text, maxsplit) ==
    LET ds   == {i \in DOMAIN text : text[i].t = "delim"}
        last == CHOOSE i \in ds : \A j \in ds : j <= i
        frst == CHOOSE i \in ds : \A j \in ds : i <= j
    IN  IF Cardinality(ds) < 2 THEN SplitDelimLoop(text, maxsplit, <<>>, <<>>)
        ELSE <<SubSeq(text, 1, frst - 1), SubSeq(text, frst + 1, last - 1),
               SubSeq(text, last + 1, Len(text))>>

SplitDelim(text, maxsplit) == SplitDelimLoop(text, maxsplit, <<>>, <<>>)

\* A variant of EnsureFlow that leaves the lists as they were loaded.
EnsureFlowNever(fm, key) == fm

\* if "categories" in fm and isinstance(fm["categories"], list): ...
EnsureFlow(fm, key) ==
    IF HasKey(fm, key) /\ Get(fm, key).ty = "list"
    THEN Put(fm, key, FlowList(Get(fm, key)))
    ELSE fm

\* A variant of TouchNewText that puts a line break after the closing delimiter.
TouchNewTextBreak(fm, body) == <<Delim>> \o YamlDump(fm) \o <<Delim, Text>> \o body

\* new_text = f"---\n{new_front}\n---{body}"
TouchNewText(fm, body) == <<Delim>> \o YamlDump(fm) \o <<Delim>> \o body

\* The body of touch_cmd's loop for one text at second t: [status, text].
\* "nofm" and "malformed" are echoed and the loop continues; "raised" is an
\* exception nothing catches (yaml.safe_load raising, or a loaded value that
\* is no mapping and takes no item assignment); "touched" writes text.
TouchText(text, t) ==
    LET parts  == SplitDelim(text, 2)
        loaded == YamlLoad(parts[2])
        fm     == Put(EnsureFlow(EnsureFlow(loaded.fm, "categories"), "tags"),
                      "last_update", NowStr(t))
    IN  IF ~(text # <<>> /\ Head(text).t = "delim")
        THEN [status |-> "nofm", text |-> text]
        ELSE IF Len(parts) # 3
        THEN [status |-> "malformed", text |-> text]
        ELSE IF loaded.kind # "mapping"
        THEN [status |-> "raised", text |-> text]
        ELSE [status |-> "touched", text |-> TouchNewText(fm, parts[3])]

NoReport == [st |-> "", before |-> <<>>, at |-> 0]

\* memex yfm touch PATH...: the command starts on its first path
TouchStart ==
    /\ tpc \in {"idle", "crashed"}
    /\ Len(disk) > 0
    /\ tpc' = "run"
    /\ ti' = 1
    /\ report' = [i \in DOMAIN disk |-> NoReport]
    /\ UNCHANGED <<disk, prevText, writes>>
    /\ UNCHANGED <<taxaVars, ruleVars, titleVars, newVars, now>>

\* one iteration of `for path in paths`
TouchFile ==
    /\ tpc = "run"
    /\ ti <= Len(disk)
    /\ LET r == TouchText(disk[ti], now)
       IN  /\ report' = [report EXCEPT ![ti] = [st |-> r.status, before |-> disk[ti],
                                                  at |-> now]]
           /\ IF r.status = "touched"
              THEN /\ disk' = [disk EXCEPT ![ti] = r.text]
                   /\ prevText' = [prevText EXCEPT ![ti] = disk[ti]]
                   /\ writes' = [writes EXCEPT ![ti] = IF @ < MaxWrites THEN @ + 1 ELSE @]
              ELSE UNCHANGED <<disk, prevText, writes>>
           /\ tpc' = IF r.status = "raised" THEN "crashed"
                     ELSE IF ti = Len(disk) THEN "idle" ELSE "run"
    /\ ti' = ti + 1
    /\ UNCHANGED <<taxaVars, ruleVars, titleVars, newVars, now>>


(***************************************************************************)
(* memex new.                                                              *)
(***************************************************************************)
\* _sanitize_slug: strip, drop a trailing ".md" (any case), drop a leading
\* YYYY-MM-DD- date
IsDatePrefix(s) ==
    /\ Len(s) >= 11
    /\ \A i \in {1, 2, 3, 4, 6, 7, 9, 10} : s[i] \in Digits
    /\ \A i \in {5, 8, 11} : s[i] = "-"

\* A variant of sanitize_slug that keeps a leading date.
SanitizeSlugKeepDate(slug) ==
    LET s1 == Strip(slug)
    IN  IF EndsWith(Lower(s1), <<".", "m", "d">>) THEN SubSeq(s1, 1, Len(s1) - 3) ELSE s1

sanitize_slug(slug) ==
    LET s1 == Strip(slug)
        s2 == IF EndsWith(Lower(s1), <<".", "m", "d">>) THEN SubSeq(s1, 1, Len(s1) - 3) ELSE s1
    IN  IF IsDatePrefix(s2) THEN SubSeq(s2, 12, Len(s2)) ELSE s2

\* today_iso(): the clock's day; the model's day has two seconds
DayDigit(t) == IF t \div 2 = 0 THEN "1" ELSE IF t \div 2 = 1 THEN "2" ELSE "3"

today_iso(t) == <<"2", "0", "2", "6", "-", "0", "1", "-", "0", DayDigit(t)>>

\* md_name = f"{today_iso()}-{base_slug}.md"
MdName(t, base_slug) == today_iso(t) \o <<"-">> \o base_slug \o <<".", "m", "d">>

\* out_path = docs_dir / folder / md_name
OutPath(folder, md_name) == folder \o <<"/">> \o md_name

\* A variant of safe_json_array that takes any JSON value for an empty array.
SafeJsonArrayLax(a) ==
    IF a.kind = "none" THEN [raised |-> FALSE, given |-> FALSE, arr |-> <<>>]
    ELSE IF a.kind = "badjson" THEN [raised |-> TRUE, given |-> FALSE, arr |-> <<>>]
    ELSE [raised |-> FALSE, given |-> TRUE, arr |-> a.arr]

\* safe_json_array: [raised, given, arr].  The argument is [kind, arr]: "none"
\* (absent or empty), "array" (a JSON array of strings), "other" (JSON that is
\* no array of strings) or "badjson".
safe_json_array(a) ==
    IF a.kind = "none" THEN [raised |-> FALSE, given |-> FALSE, arr |-> <<>>]
    ELSE IF a.kind = "array" THEN [raised |-> FALSE, given |-> TRUE, arr |-> a.arr]
    ELSE [raised |-> TRUE, given |-> FALSE, arr |-> <<>>]

\* the configuration new_cmd reads: .memex.yml and the docs/ subfolders
CfgDirRules == <<[k |-> <<"d", "o", "c", "s", "/", "a", "/", "*", "*">>,
                 v |-> [shape |-> "list", cats |-> <<"Y", "X">>]]>>

CfgAcronymMap == <<>>

CfgLilWords == << <<"t">> >>

DataFolder == <<"_", "d", "a", "t", "a">>

AssetsFolder == <<"a", "s", "s", "e", "t", "s">>

\* _list_docs_subfolders(docs_dir), sorted
DocsSubfolders == <<DataFolder, <<"a">>, AssetsFolder>>

\* folders = [f for f in ... if f not in exclude_folder]
FoldersList == SelectSeq(DocsSubfolders, LAMBDA f : f \notin {DataFolder, AssetsFolder})

\* the taxonomy new_cmd offers in its prompts
NewTaxonomy == [state |-> "ok",
                content |-> <<[k |-> "categories",
                               v |-> [null |-> FALSE, entries |-> <<[k |-> "X", v |-> "X"]>>]],
                              [k |-> "tags",
                               v |-> [null |-> FALSE, entries |-> <<[k |-> "T", v |-> "T"]>>]]>>]

\* list((taxonomy.get(section) or {}).keys())
Avail(f, section) ==
    LET c == load_yaml(f)
    IN  IF HasKey(c, section) THEN Keys(Get(c, section).entries) ELSE <<>>

Perms(S) == {p \in [1..Cardinality(S) -> S] : \A i, j \in DOMAIN p : p[i] = p[j] => i = j}

\* what _cli_multiselect can return: nothing without options; on a blank
\* answer list(set(prechecked)), in any order; else the chosen options,
\* de-duplicated in the order chosen
MultiSelect(options, prechecked) ==
    IF options = <<>> THEN {<<>>}
    ELSE Perms(Range(prechecked))
            \cup {p \in SeqsUpTo(Range(options), Len(options)) :
                     \A i, j \in DOMAIN p : p[i] = p[j] => i = j}

\* what _cli_single_select can return: an option, or None (<<>>) without options
SingleSelect(options) == IF options = <<>> THEN {<<>>} ELSE Range(options)

\* A variant of FinalList that takes an empty explicit list for none.
FinalListOr(explicit, picked) ==
    IF explicit.given /\ explicit.arr # <<>> THEN explicit.arr ELSE picked

\* final = explicit if explicit is not None else picked
FinalList(explicit, picked) == IF explicit.given THEN explicit.arr ELSE picked

StrMem(s) == [ty |-> "str", s |-> s, n |-> 0, items |-> <<>>, flow |-> FALSE]

CharsMem(cs) == [ty |-> "str", s |-> "", n |-> 0, items |-> cs, flow |-> FALSE]

BoolMem(b) == [ty |-> "bool", s |-> IF b THEN "true" ELSE "false", n |-> 0,
               items |-> <<>>, flow |-> FALSE]

FlowListMem(items) == [ty |-> "list", s |-> "", n |-> 0, items |-> items, flow |-> TRUE]

Entry(k, v) == [k |-> k, v |-> v]

\* fm = {...}: the front matter new_cmd builds (frontmatter_defaults is not
\* configured, so the hard-coded defaults apply)
BuildFrontMatter(title, t, final_categories, final_tags) ==
    <<Entry("layout", StrMem("post")),
      Entry("title", CharsMem(title)),
      Entry("description", StrMem("")),
      Entry("date", NowStr(t)),
      Entry("last_update", NowStr(t)),
      Entry("categories", FlowListMem(final_categories)),
      Entry("tags", FlowListMem(final_tags)),
      Entry("img_path", StrMem("/assets/img/posts/")),
      Entry("math", BoolMem(TRUE)),
      Entry("toc", BoolMem(TRUE)),
      Entry("comments", BoolMem(TRUE)),
      Entry("image", StrMem(""))>>

\* content = f"---\n{front}\n---\n\n"
NewContent(fm) == <<Delim>> \o YamlDump(fm) \o <<Delim>>

NewSlugs == {<<"n">>,
             <<" ", "n">>,
             <<"2", "0", "2", "5", "-", "0", "1", "-", "0", "1", "-",
               "o", "l", "d", "-", "n", "a", "m", "e">>,
             <<"g", ".", "M", "D">>}

FolderArgs == {<<>>, <<"a">>, <<"A">>, DataFolder}

JsonArgs == {[kind |-> "none", arr |-> <<>>], [kind |-> "array", arr |-> <<>>],
             [kind |-> "array", arr |-> <<"Z">>], [kind |-> "other", arr |-> <<>>],
             [kind |-> "badjson", arr |-> <<>>]}

NoArgs == [slug |-> <<>>, interactive |-> FALSE, folder |-> <<>>,
           cats |-> [kind |-> "none", arr |-> <<>>], tags |-> [kind |-> "none", arr |-> <<>>],
           force |-> FALSE, no_backup |-> FALSE, at |-> 0, stamp |-> 0,
           out_path |-> <<>>, existed |-> FALSE, old |-> <<>>, fm |-> <<>>]

\* new_cmd up to its first look at the target: the folder, the path, the
\* title, the categories and tags, the front matter.  A failure raises before
\* any file is read or written.  One behaviour is one invocation; the files
\* earlier invocations left are the initial state's.
NewStart ==
    /\ npc = "idle"
    /\ \E slug \in NewSlugs, interactive, force, no_backup \in BOOLEAN,
          folder_arg \in FolderArgs, cats \in JsonArgs, tags \in JsonArgs,
          chosen \in SingleSelect(FoldersList) :
        LET folder        == IF interactive /\ folder_arg = <<>> THEN chosen ELSE folder_arg
            base_slug     == sanitize_slug(slug)
            out_path      == OutPath(folder, MdName(now, base_slug))
            title         == title_from_filename(base_slug, CfgAcronymMap, CfgLilWords)
            explicit_cats == safe_json_array(cats)
            explicit_tags == safe_json_array(tags)
            inferred_cats == infer_categories_for_folder(folder, CfgDirRules)
            a             == [slug |-> slug, interactive |-> interactive, folder |-> folder,
                              cats |-> cats, tags |-> tags, force |-> force,
                              no_backup |-> no_backup, at |-> now, stamp |-> 0,
                              out_path |-> <<>>, existed |-> FALSE, old |-> <<>>,
                              fm |-> <<>>]
        IN  IF folder = <<>>
            THEN /\ npc' = "failed" /\ nerr' = "MissingFolder" /\ nargs' = a
            ELSE IF ~InList(FoldersList, folder)
            THEN /\ npc' = "failed" /\ nerr' = "UnknownFolder" /\ nargs' = a
            ELSE IF explicit_cats.raised \/ explicit_tags.raised
            THEN /\ npc' = "failed" /\ nerr' = "InvalidExplicitList"
                 /\ nargs' = [a EXCEPT !.out_path = out_path]
            ELSE \E picked_cats \in (IF interactive
                                     THEN MultiSelect(Avail(file, "categories"), inferred_cats)
                                     ELSE {inferred_cats}),
                    picked_tags \in (IF interactive
                                     THEN MultiSelect(Avail(file, "tags"), <<>>)
                                     ELSE {<<>>}) :
                   LET final_categories == FinalList(explicit_cats, picked_cats)
                       final_tags       == FinalList(explicit_tags, picked_tags)
                   IN  /\ npc' = "exists" /\ nerr' = ""
                       /\ nargs' = [a EXCEPT
                                       !.out_path = out_path,
                                       !.fm = BuildFrontMatter(title, now, final_categories,
                                                               final_tags)]
    /\ UNCHANGED <<docs, backups>>
    /\ UNCHANGED <<taxaVars, ruleVars, titleVars, touchVars, now>>

\* A variant of NewExists that overwrites without asking for --force.
NewExistsNoCheck ==
    /\ npc = "exists"
    /\ nargs' = [nargs EXCEPT !.existed = HasKey(docs, nargs.out_path),
                              !.old = IF HasKey(docs, nargs.out_path)
                                      THEN Get(docs, nargs.out_path) ELSE <<>>]
    /\ IF HasKey(docs, nargs.out_path) /\ ~nargs.no_backup
       THEN npc' = "backup" /\ nerr' = nerr
       ELSE npc' = "write" /\ nerr' = nerr
    /\ UNCHANGED <<docs, backups>>
    /\ UNCHANGED <<taxaVars, ruleVars, titleVars, touchVars, now>>

\* A variant of NewExists that goes on to the overwrite without a backup.
NewExistsSkipBackup ==
    /\ npc = "exists"
    /\ nargs' = [nargs EXCEPT !.existed = HasKey(docs, nargs.out_path),
                              !.old = IF HasKey(docs, nargs.out_path)
                                      THEN Get(docs, nargs.out_path) ELSE <<>>]
    /\ IF HasKey(docs, nargs.out_path) /\ ~nargs.force
       THEN npc' = "failed" /\ nerr' = "FileExists"
       ELSE npc' = "write" /\ nerr' = nerr
    /\ UNCHANGED <<docs, backups>>
    /\ UNCHANGED <<taxaVars, ruleVars, titleVars, touchVars, now>>

\* if out_path.exists(): if not force: raise ...; if not no_backup: (backup)
NewExists ==
    /\ npc = "exists"
    /\ nargs' = [nargs EXCEPT !.existed = HasKey(docs, nargs.out_path),
                              !.old = IF HasKey(docs, nargs.out_path)
                                      THEN Get(docs, nargs.out_path) ELSE <<>>]
    /\ IF HasKey(docs, nargs.out_path) /\ ~nargs.force
       THEN npc' = "failed" /\ nerr' = "FileExists"
       ELSE IF HasKey(docs, nargs.out_path) /\ ~nargs.no_backup
       THEN npc' = "backup" /\ nerr' = nerr
       ELSE npc' = "write" /\ nerr' = nerr
    /\ UNCHANGED <<docs, backups>>
    /\ UNCHANGED <<taxaVars, ruleVars, titleVars, touchVars, now>>

\* stamp = datetime.now()...; backup.write_text(...) opens the backup, which
\* creates it empty: its name carries the second the stamp was taken in
NewBackupOpen ==
    /\ npc = "backup"
    /\ HasKey(docs, nargs.out_path)
    /\ backups' = Put(backups, [path |-> nargs.out_path, stamp |-> now], <<>>)
    /\ nargs' = [nargs EXCEPT !.stamp = now]
    /\ npc' = "backing"
    /\ UNCHANGED <<docs, nerr>>
    /\ UNCHANGED <<taxaVars, ruleVars, titleVars, touchVars, now>>

\* backup.write_text(out_path.read_text()): the target's text reaches the backup
NewBackup ==
    /\ npc = "backing"
    /\ HasKey(docs, nargs.out_path)
    /\ backups' = Put(backups, [path |-> nargs.out_path, stamp |-> nargs.stamp],
                      Get(docs, nargs.out_path))
    /\ npc' = "write"
    /\ UNCHANGED <<docs, nargs, nerr>>
    /\ UNCHANGED <<taxaVars, ruleVars, titleVars, touchVars, now>>

\* out_path.write_text(content) opens the target, which empties it
NewWriteOpen ==
    /\ npc = "write"
    /\ docs' = Put(docs, nargs.out_path, <<>>)
    /\ npc' = "writing"
    /\ UNCHANGED <<backups, nargs, nerr>>
    /\ UNCHANGED <<taxaVars, ruleVars, titleVars, touchVars, now>>

\* out_path.write_text(content): the content reaches the target
NewWrite ==
    /\ npc = "writing"
    /\ docs' = Put(docs, nargs.out_path, NewContent(nargs.fm))
    /\ npc' = "done"
    /\ UNCHANGED <<backups, nargs, nerr>>
    /\ UNCHANGED <<taxaVars, ruleVars, titleVars, touchVars, now>>


(***************************************************************************)
(* Initial states and specifications: one per command.                     *)
(***************************************************************************)
TouchIdle == /\ disk = <<>> /\ prevText = <<>> /\ writes = <<>>
             /\ tpc = "idle" /\ ti = 1 /\ report = <<>>

NewIdle == /\ docs = <<>> /\ backups = <<>> /\ npc = "idle"
           /\ nargs = NoArgs /\ nerr = ""

\* the atoms the files touch is given are made of
TimeVal(t, st) == [ty |-> "str", s |-> "time", n |-> t, items |-> <<>>, st |-> st]

DocAtoms == {Delim, Text,
             Line("title", StrVal("x", "quoted")),
             Line("last_update", TimeVal(0, "plain")),
             Line("categories", ListVal(<<"c">>, "block")),
             Line("tags", ListVal(<<"d", "c">>, "block")),
             Line("extra", StrVal("e", "plain"))}

Docs == SeqsUpTo(DocAtoms, MaxDoc)

\* one file of each kind, for a batch
BatchDocs == {<<Text>>,
              <<Delim, Line("title", StrVal("x", "plain"))>>,
              <<Delim, Text, Delim, Text>>,
              <<Delim, Line("title", StrVal("x", "plain")), Text, Delim>>,
              <<Delim, Delim>>,
              <<Delim, Line("tags", ListVal(<<"c">>, "block")), Delim, Text, Delim>>}

TouchInitWith(texts) ==
    /\ disk = texts
    /\ prevText = [i \in DOMAIN texts |-> <<>>]
    /\ writes = [i \in DOMAIN texts |-> 0]
    /\ tpc = "idle" /\ ti = 1
    /\ report = [i \in DOMAIN texts |-> NoReport]

TaxaSpecInit == TaxaInit /\ RuleIdle /\ TitleIdle /\ TouchIdle /\ NewIdle /\ now = 0

TaxaNext == AddCmd \/ RmCmd

SpecTaxa == TaxaSpecInit /\ [][TaxaNext]_vars

StoreSpecInit ==
    /\ RuleIdle /\ TitleIdle /\ TouchIdle /\ NewIdle /\ now = 0
    /\ file \in IdentityFiles /\ call = NoCall(file) /\ prevAdd = NoAdd /\ procs = NoProcs
    /\ history = HistoryOf(file)

StoreNext == StoreAdd \/ StoreRm

SpecStore == StoreSpecInit /\ [][StoreNext]_vars

RaceSpecInit ==
    /\ RuleIdle /\ TitleIdle /\ TouchIdle /\ NewIdle /\ now = 0
    /\ file \in RaceFiles /\ call = NoCall(file) /\ prevAdd = NoAdd /\ procs = NoProcs
    /\ history = NoHistory

RaceNext == \E p \in Procs : RaceLoad(p) \/ RaceSaveOpen(p) \/ RaceSave(p)

SpecRace == RaceSpecInit /\ [][RaceNext]_vars

RuleSpecInit == TaxaIdle /\ RuleInit /\ TitleIdle /\ TouchIdle /\ NewIdle /\ now = 0

RuleNext == InferCategories

SpecRules == RuleSpecInit /\ [][RuleNext]_vars

TitleSpecInit == TaxaIdle /\ RuleIdle /\ TitleInit /\ TouchIdle /\ NewIdle /\ now = 0

TitleNext == TitleFromFilename

SpecTitle == TitleSpecInit /\ [][TitleNext]_vars

TouchSpecInit ==
    /\ TaxaIdle /\ RuleIdle /\ TitleIdle /\ NewIdle /\ now = 0
    /\ \E d \in Docs : TouchInitWith(<<d>>)

TouchNext == TouchStart \/ TouchFile \/ Tick

SpecTouch == TouchSpecInit /\ [][TouchNext]_vars

BatchSpecInit ==
    /\ TaxaIdle /\ RuleIdle /\ TitleIdle /\ NewIdle /\ now = 0
    /\ \E texts \in SeqsUpTo(BatchDocs, MaxBatch) : texts # <<>> /\ TouchInitWith(texts)

SpecBatch == BatchSpecInit /\ [][TouchNext]_vars

OldContent == <<Delim, Line("title", StrVal("old", "plain")), Delim, Text>>

NewSpecInit ==
    /\ RuleIdle /\ TitleIdle /\ TouchIdle /\ now = 0
    /\ file = NewTaxonomy /\ call = NoCall(file) /\ prevAdd = NoAdd /\ procs = NoProcs
    /\ history = NoHistory
    /\ docs \in {<<>>, <<Entry(OutPath(<<"a">>, MdName(0, <<"n">>)), OldContent)>>}
    /\ backups = <<>> /\ npc = "idle" /\ nargs = NoArgs /\ nerr = ""

NewNext == NewStart \/ NewExists \/ NewBackupOpen \/ NewBackup \/ NewWriteOpen
              \/ NewWrite \/ Tick

SpecNew == NewSpecInit /\ [][NewNext]_vars


(***************************************************************************)
(* Properties.                                                             *)
(***************************************************************************)
\* the elements of s at the indices in I, in s's order
PickIdx(s, I) ==
    LET F[n \in 0..Len(s)] ==
            IF n = 0 THEN <<>>
            ELSE IF n \in I THEN Append(F[n - 1], s[n]) ELSE F[n - 1]
    IN  F[Len(s)]

\* the k-th smallest element of a set of numbers
Kth(S, k) == CHOOSE p \in S : Cardinality({q \in S : q < p}) = k - 1

\* the entries of kind's section in taxonomy file f (none when it is missing)
SectionEntries(f, kind) ==
    LET c == load_yaml(f)
    IN  IF HasKey(c, SectionOf(kind)) THEN Get(c, SectionOf(kind)).entries ELSE <<>>

SeenBefore(vs, i) == \E j \in 1..(i - 1) : vs[j] = vs[i]

\* C1: after an add, the values that were keys of the section when they were
\* processed (keys before the call, or given earlier in the same call) are
\* exactly the skipped ones, the others are the changed ones, and the section
\* is its old entries, in their order, followed by the changed values.
C1_AddSkipsPresentAppendsNew ==
    (call.outcome = "ok" /\ call.action = "add") =>
        LET before  == SectionEntries(call.before, call.kind)
            vs      == call.values
            present == {i \in DOMAIN vs : HasKey(before, vs[i]) \/ SeenBefore(vs, i)}
            added   == PickIdx(vs, DOMAIN vs \ present)
        IN  /\ call.skipped = PickIdx(vs, present)
            /\ call.changed = added
            /\ SectionEntries(file, call.kind)
                  = before \o [i \in DOMAIN added |-> [k |-> added[i], v |-> added[i]]]

C1_Witness ==
    /\ call.outcome = "ok" /\ call.action = "add"
    /\ SectionEntries(call.before, call.kind) # <<>>
    /\ call.changed # <<>> /\ call.skipped # <<>>

\* C2: after an rm, the values that were keys of the section when they were
\* processed are exactly the changed ones, whatever they were mapped to, the
\* others are the skipped ones, and the section is its old entries without
\* the given values.
C2_RemoveReportsEveryDeletedKey ==
    (call.outcome = "ok" /\ call.action = "rm") =>
        LET before  == SectionEntries(call.before, call.kind)
            vs      == call.values
            present == {i \in DOMAIN vs : HasKey(before, vs[i]) /\ ~SeenBefore(vs, i)}
        IN  /\ call.changed = PickIdx(vs, present)
            /\ call.skipped = PickIdx(vs, DOMAIN vs \ present)
            /\ SectionEntries(file, call.kind)
                  = SelectSeq(before, LAMBDA e : e.k \notin Range(vs))

\* the last two commands were add [v] and rm [v] on the same section
AddThenRemove ==
    /\ prevAdd.valid
    /\ call.outcome = "ok" /\ call.action = "rm"
    /\ call.kind = prevAdd.kind /\ call.values = <<prevAdd.v>>

\* C3 as stated: add [v] then rm [v] leaves the persisted taxonomy as it was,
\* for every taxonomy (the section missing or v already a key included).
C3_RoundTripAnyTaxonomy ==
    AddThenRemove => load_yaml(file) = load_yaml(prevAdd.before)

\* C3: add [v] then rm [v] leaves the persisted taxonomy as it was (same
\* sections, keys, values and order), when the section is stored as a
\* mapping and v is not a key of it.
C3_RoundTripWhenAbsent ==
    (/\ AddThenRemove
     /\ HasKey(load_yaml(prevAdd.before), SectionOf(prevAdd.kind))
     /\ ~HasKey(SectionEntries(prevAdd.before, prevAdd.kind), prevAdd.v))
        => file = prevAdd.before

C3_Witness ==
    /\ AddThenRemove
    /\ HasKey(load_yaml(prevAdd.before), SectionOf(prevAdd.kind))
    /\ ~HasKey(SectionEntries(prevAdd.before, prevAdd.kind), prevAdd.v)
    /\ SectionEntries(prevAdd.before, prevAdd.kind) # <<>>
    /\ call.changed = <<prevAdd.v>>
    /\ Len(load_yaml(file)) = 2


\* p is a prefix of s, character by character
IsPrefix(p, s) == Len(p) <= Len(s) /\ \A j \in DOMAIN p : s[j] = p[j]

\* no element occurs twice
NoDuplicates(s) == \A i, j \in DOMAIN s : s[i] = s[j] => i = j

Tokens(s) ==
    LET seps     == {i \in DOMAIN s : s[i] = "-" \/ s[i] = "_"}
        n        == Cardinality(seps)
        bound(k) == IF k = 0 THEN 0 ELSE IF k = n + 1 THEN Len(s) + 1 ELSE Kth(seps, k)
    IN  [k \in 1..(n + 1) |-> SubSeq(s, bound(k - 1) + 1, bound(k) - 1)]

\* the word the title holds for the token at position i (from 0)
WordFor(i, token, acronym_map, keep_lowercase) ==
    LET low == Lower(token)
    IN  IF \E e \in Range(acronym_map) : e.k = low
        THEN (CHOOSE e \in Range(acronym_map) : e.k = low).v
        ELSE IF low \in keep_lowercase /\ i # 0 THEN low
        ELSE Capitalize(low)

\* the title of the tokens of s
TitleOf(s, acronym_map, keep_lowercase) ==
    LET toks == Tokens(s)
    IN  Join([k \in DOMAIN toks |-> WordFor(k - 1, toks[k], acronym_map, keep_lowercase)],
             <<" ">>)

TheGitCheatsheet == <<"t", "h", "e", "-", "g", "i", "t", "-",
                      "c", "h", "e", "a", "t", "s", "h", "e", "e", "t">>

TheGitCheatsheetTitle == <<"T", "h", "e", " ", "G", "i", "t", " ",
                           "C", "h", "e", "a", "t", "s", "h", "e", "e", "t">>

\* C5 as stated: the title is made of the tokens of the slug as given.
C5_TitleOfSlugAsGiven ==
    title_run.done =>
        title_run.out = TitleOf(title_run.slug, title_run.acronym_map,
                                Range(title_run.lil_words))

\* C5: the title is made of the tokens of the slug with its leading and
\* trailing whitespace removed: one word per token joined by single spaces,
\* the acronym map's display form for a token whose lower case is a key (at
\* any position), else lower case for a keep-lowercase token that is not the
\* first, else capitalized; "the-git-cheatsheet" with {} and {"the"} gives
\* "The Git Cheatsheet".
C5_TitleOfStrippedSlug ==
    /\ title_run.done =>
          title_run.out = TitleOf(Strip(title_run.slug), title_run.acronym_map,
                                  Range(title_run.lil_words))
    /\ title_from_filename(TheGitCheatsheet, <<>>, << <<"t", "h", "e">> >>)
          = TheGitCheatsheetTitle

C5_Witness ==
    /\ title_run.done
    /\ title_run.slug = <<" ", "t", "_", "t">>
    /\ title_run.lil_words = << <<"t">> >>
    /\ title_run.out = <<"T", " ", "t">>


\* the positions of the delimiters of a text
DelimPositions(text) == {i \in DOMAIN text : text[i].t = "delim"}

\* the text after the second delimiter of a text that holds two
AfterSecondDelim(text) == SubSeq(text, Kth(DelimPositions(text), 2) + 1, Len(text))

\* the atoms between the first two delimiters of a text that holds two
FrontBlock(text) ==
    SubSeq(text, Kth(DelimPositions(text), 1) + 1, Kth(DelimPositions(text), 2) - 1)

\* C6: a text that begins with the delimiter and holds at least two is cut
\* at its first two delimiters, however many follow: it is touched when the
\* block between them is a mapping, and never taken for malformed.  A text
\* touch wrote back is the delimiter, the regenerated block of `key: value`
\* lines, the delimiter, and then, atom for atom, what followed the second
\* delimiter of the original, further delimiters included.
C6_TouchPreservesBody ==
    \A i \in DOMAIN disk :
        LET orig  == report[i].before
            new   == disk[i]
            close == Kth(DelimPositions(new), 2)
        IN  /\ (/\ report[i].st # ""
                /\ orig # <<>> /\ orig[1].t = "delim"
                /\ Cardinality(DelimPositions(orig)) >= 2)
                  => /\ report[i].st \notin {"nofm", "malformed"}
                     /\ (\A a \in Range(FrontBlock(orig)) : a.t = "line")
                            => report[i].st = "touched"
            /\ report[i].st = "touched"
                  => /\ orig # <<>> /\ orig[1].t = "delim"
                     /\ Cardinality(DelimPositions(orig)) >= 2
                     /\ new[1].t = "delim"
                     /\ \A j \in 2..(close - 1) : new[j].t = "line"
                     /\ SubSeq(new, close + 1, Len(new)) = AfterSecondDelim(orig)

C6_Witness ==
    \E i \in DOMAIN disk :
        /\ report[i].st = "touched"
        /\ Cardinality(DelimPositions(report[i].before)) = 3
        /\ Len(report[i].before) = 4
        /\ report[i].before[4].t = "delim"
        /\ FrontBlock(report[i].before) # <<>>
        /\ Len(AfterSecondDelim(disk[i])) = 1

\* two texts are equal but for the value of their last_update lines
SameButLastUpdate(a, b) ==
    /\ Len(a) = Len(b)
    /\ \A j \in DOMAIN a :
          \/ a[j] = b[j]
          \/ /\ a[j].t = "line" /\ b[j].t = "line"
             /\ a[j].k = "last_update" /\ b[j].k = "last_update"
             /\ a[j].v.ty = b[j].v.ty /\ a[j].v.st = b[j].v.st

\* C7: when touch has written a file twice, what it wrote the second time
\* and what it wrote the first time differ only in the value of last_update:
\* same fields, same order, same values and styles, same body.
C7_TouchTwiceSameButLastUpdate ==
    \A i \in DOMAIN disk : writes[i] >= 2 => SameButLastUpdate(prevText[i], disk[i])

C7_Witness ==
    \E i \in DOMAIN disk :
        /\ writes[i] >= 2
        /\ prevText[i] # disk[i]
        /\ Len(FrontBlock(disk[i])) >= 2
        /\ AfterSecondDelim(disk[i]) # <<>>

FieldOrder == <<"layout", "title", "description", "date", "last_update", "categories",
                "tags", "img_path", "math", "toc", "comments", "image">>

Recognized(k) == \E n \in DOMAIN FieldOrder : FieldOrder[n] = k

FieldIndex(k) == CHOOSE n \in DOMAIN FieldOrder : FieldOrder[n] = k

\* the keys are the recognized fields in the fixed order, then the unknown ones
CanonicalOrder(keys) ==
    \A a, b \in DOMAIN keys :
        a < b => /\ (Recognized(keys[a]) /\ Recognized(keys[b])
                        => FieldIndex(keys[a]) < FieldIndex(keys[b]))
                 /\ (Recognized(keys[b]) => Recognized(keys[a]))

\* C8: every front-matter block that touch or new wrote lists the recognized
\* fields in the fixed order, the unknown fields after them.
C8_WrittenBlockInCanonicalOrder ==
    /\ \A i \in DOMAIN disk :
          report[i].st = "touched" => CanonicalOrder(Keys(FrontBlock(disk[i])))
    /\ (npc = "done" => CanonicalOrder(Keys(FrontBlock(Get(docs, nargs.out_path)))))

\* a text touch cannot handle: no front matter, or malformed front matter
NoFrontMatter(text) == text = <<>> \/ text[1].t # "delim"

MalformedFrontMatter(text) ==
    /\ ~NoFrontMatter(text)
    /\ \/ Cardinality(DelimPositions(text)) < 2
       \/ \E a \in Range(FrontBlock(text)) : a.t # "line"

\* C9: when a touch command has ended, every file of the batch was handled:
\* a file without front matter or with malformed front matter (fewer than two
\* delimiters, or a block that is no mapping) was reported and is unchanged,
\* and every other file was touched.
C9_BadFileDoesNotAbortBatch ==
    (tpc \in {"idle", "crashed"} /\ \E i \in DOMAIN disk : report[i].st # "") =>
        \A i \in DOMAIN disk :
            /\ report[i].st # ""
            /\ NoFrontMatter(report[i].before)
                  => report[i].st = "nofm" /\ disk[i] = report[i].before
            /\ MalformedFrontMatter(report[i].before)
                  => report[i].st = "malformed" /\ disk[i] = report[i].before
            /\ (~NoFrontMatter(report[i].before) /\ ~MalformedFrontMatter(report[i].before))
                  => report[i].st = "touched"

\* new_cmd has looked at the target
Looked == \/ npc \in {"backup", "backing", "write", "writing", "done"}
          \/ (npc = "failed" /\ nerr = "FileExists")

\* C10: new fails with FileExists exactly when the target existed and
\* --force was not given, and then the target holds what it held and there
\* is no backup; when the target did not exist there is no FileExists and no
\* backup is ever written.
C10_FileExistsLeavesNoTrace ==
    /\ Looked => (nerr = "FileExists" <=> (nargs.existed /\ ~nargs.force))
    /\ nerr = "FileExists" =>
          /\ npc = "failed"
          /\ HasKey(docs, nargs.out_path)
          /\ Get(docs, nargs.out_path) = OldContent
          /\ Len(docs) = 1
          /\ backups = <<>>
    /\ (Looked /\ ~nargs.existed) => backups = <<>>
    /\ (npc = "exists" /\ ~HasKey(docs, nargs.out_path)) => (nerr = "" /\ backups = <<>>)

C10_Witness ==
    /\ npc = "failed" /\ nerr = "FileExists"
    /\ nargs.existed /\ ~nargs.force /\ ~nargs.no_backup
    /\ now = 1


\* the backups of the target that hold the text c
BackupsHolding(c) ==
    {i \in DOMAIN backups : backups[i].k.path = nargs.out_path /\ backups[i].v = c}

\* new_cmd was told to overwrite an existing target
Forced == Looked /\ nargs.existed /\ nargs.force

\* C11: when new overwrites an existing target with --force and without
\* --no-backup, the target's old text is in the target or in a backup at every
\* step, a backup holds it before the target is opened for writing, and in
\* the end the target holds the new content; with --no-backup no backup is
\* written and the target ends with the new content.
C11_BackupBeforeOverwrite ==
    /\ (Forced /\ ~nargs.no_backup) =>
          /\ \/ (HasKey(docs, nargs.out_path) /\ Get(docs, nargs.out_path) = nargs.old)
             \/ BackupsHolding(nargs.old) # {}
          /\ npc \in {"writing", "done"} => BackupsHolding(nargs.old) # {}
          /\ npc \in {"backup", "backing"} => Get(docs, nargs.out_path) = nargs.old
    /\ (Looked /\ nargs.no_backup) => backups = <<>>
    /\ (Forced /\ npc = "done") =>
          /\ Get(docs, nargs.out_path) = NewContent(nargs.fm)
          /\ Get(docs, nargs.out_path) # nargs.old

C11_Witness ==
    /\ Forced /\ ~nargs.no_backup /\ npc = "done"
    /\ nargs.old = OldContent
    /\ Len(backups) = 1 /\ backups[1].v = OldContent /\ backups[1].k.stamp = 1
    /\ Get(docs, nargs.out_path) # OldContent


\* an explicit list argument that safe_json_array takes: none, or a JSON
\* array of strings
ValidList(a) == a.kind \in {"none", "array"}

\* the subfolders of docs/ that new offers: all but _data and assets
Choosable == Range(DocsSubfolders) \ {DataFolder, AssetsFolder}

\* no document and no backup was created or overwritten
Untouched ==
    /\ backups = <<>>
    /\ Len(docs) <= 1
    /\ \A i \in DOMAIN docs : docs[i].v = OldContent

WrittenList(key) ==
    LET block == FrontBlock(Get(docs, nargs.out_path))
    IN  block[CHOOSE i \in DOMAIN block : block[i].k = key].v.items

\* C13: the categories new wrote are the --cats array whenever one was given
\* (an empty one and interactive mode included), else, without
\* --interactive, the categories the rule matcher infers for the folder; the
\* tags it wrote are the --tags array whenever one was given, else, without
\* --interactive, none.
C13_ExplicitListsWin ==
    npc = "done" =>
        /\ nargs.cats.kind = "array" => WrittenList("categories") = nargs.cats.arr
        /\ (nargs.cats.kind = "none" /\ ~nargs.interactive)
              => WrittenList("categories")
                    = infer_categories_for_folder(nargs.folder, CfgDirRules)
        /\ nargs.tags.kind = "array" => WrittenList("tags") = nargs.tags.arr
        /\ (nargs.tags.kind = "none" /\ ~nargs.interactive) => WrittenList("tags") = <<>>

C13_Witness ==
    /\ npc = "done" /\ nargs.interactive
    /\ nargs.cats = [kind |-> "array", arr |-> <<>>]
    /\ nargs.tags = [kind |-> "array", arr |-> <<"Z">>]
    /\ WrittenList("categories") = <<>>
    /\ WrittenList("tags") = <<"Z">>
    /\ infer_categories_for_folder(nargs.folder, CfgDirRules) = <<"Y", "X">>


DotMd == <<".", "m", "d">>

\* s begins with YYYY-MM-DD-
LeadingDate(s) ==
    /\ Len(s) >= 11
    /\ \A i \in 1..11 : IF i \in {5, 8, 11} THEN s[i] = "-" ELSE s[i] \in Digits

\* s without a leading YYYY-MM-DD-
WithoutDate(s) == IF LeadingDate(s) THEN SubSeq(s, 12, Len(s)) ELSE s

\* s without a trailing .md, in this letter case
WithoutMd(s) ==
    IF Len(s) >= 3 /\ SubSeq(s, Len(s) - 2, Len(s)) = DotMd
    THEN SubSeq(s, 1, Len(s) - 3) ELSE s

\* s without a trailing .md, in any letter case
WithoutMdAnyCase(s) ==
    IF Len(s) >= 3 /\ Lower(SubSeq(s, Len(s) - 2, Len(s))) = DotMd
    THEN SubSeq(s, 1, Len(s) - 3) ELSE s

\* s without the whitespace around it
Trimmed(s) ==
    LET ink == {i \in DOMAIN s : s[i] \notin Whitespace}
    IN  IF ink = {} THEN <<>>
        ELSE SubSeq(s, CHOOSE i \in ink : \A j \in ink : i <= j,
                       CHOOSE i \in ink : \A j \in ink : j <= i)

\* the path of <folder>/<date of second t>-<base>.md
NamedFor(t, base) == nargs.folder \o <<"/">> \o today_iso(t) \o <<"-">> \o base \o DotMd

\* s holds the characters of p somewhere
Holds(s, p) == \E i \in 0..(Len(s) - Len(p)) : SubSeq(s, i + 1, i + Len(p)) = p

\* C14 as stated: the file new wrote is named <today>-<slug without a
\* trailing ".md" and without a leading date>.md, for every slug.
C14_NameFromSlugAsGiven ==
    npc = "done" =>
        /\ nargs.out_path = NamedFor(nargs.at, WithoutDate(WithoutMd(nargs.slug)))
        /\ HasKey(docs, nargs.out_path)

\* C14: the file new wrote is named <today>-<base>.md, today being the day
\* new computed the name on and base the slug with the whitespace around it
\* removed, then a trailing ".md" in any letter case, then a leading
\* YYYY-MM-DD-; it is the only file written, and a date the slug began with,
\* when it is not today's, is not in its name.
C14_NameFromTrimmedSlug ==
    npc = "done" =>
        /\ nargs.out_path
              = NamedFor(nargs.at, WithoutDate(WithoutMdAnyCase(Trimmed(nargs.slug))))
        /\ HasKey(docs, nargs.out_path)
        /\ Get(docs, nargs.out_path) = NewContent(nargs.fm)
        /\ \A i \in DOMAIN docs : docs[i].k # nargs.out_path => docs[i].v = OldContent
        /\ (LeadingDate(nargs.slug) /\ SubSeq(nargs.slug, 1, 10) # today_iso(nargs.at))
              => ~Holds(nargs.out_path, SubSeq(nargs.slug, 1, 10))

C14_Witness ==
    /\ npc = "done"
    /\ nargs.slug = <<"2", "0", "2", "5", "-", "0", "1", "-", "0", "1", "-",
                      "o", "l", "d", "-", "n", "a", "m", "e">>
    /\ nargs.at = 2
    /\ HasKey(docs, <<"a", "/", "2", "0", "2", "6", "-", "0", "1", "-", "0", "2", "-",
                      "o", "l", "d", "-", "n", "a", "m", "e", ".", "m", "d">>)


\* both processes have written the file
RaceDone == \A p \in Procs : procs[p].pc = "done"

\* the processes ran one after the other: neither read the file while the
\* other was between its read and the end of its write
OneAfterTheOther == \A p \in Procs : procs[p].alone

\* the process that finished as the n-th
Ranked(n) == procs[CHOOSE p \in Procs : procs[p].rank = n]

\* the change x made to v is in the file: a value added is a key, a value
\* removed is none
InFile(x, v) == (x.action = "add") <=> HasKey(SectionEntries(file, x.kind), v)

\* y changed v back after x changed it
Reverted(x, y, v) ==
    /\ y.kind = x.kind /\ y.action # x.action
    /\ \E i \in DOMAIN y.changed : y.changed[i] = v

\* y reported the change x reported of v
Repeated(x, y, v) ==
    /\ y.kind = x.kind /\ y.action = x.action
    /\ \E i \in DOMAIN y.changed : y.changed[i] = v

\* both processes read the file before either wrote it
BothLoadedFirst ==
    /\ Ranked(1).seen = Ranked(2).seen
    /\ \E p \in Procs : ~procs[p].alone

\* C15: when two update calls ran one after the other, the file holds what
\* the later one wrote, every change the later one reported is in it, and so
\* is every change the earlier one reported, unless the later one reported
\* the reverse change of the same value in the same section.  When both read
\* the file before either wrote it and the file holds what the later writer
\* wrote, a change the earlier writer reported is in the file only if the
\* later writer reported the same change: the others are lost.
C15_LastWriterWins ==
    /\ (RaceDone /\ OneAfterTheOther) =>
          /\ file = Ranked(2).mem
          /\ \A i \in DOMAIN Ranked(2).changed :
                InFile(Ranked(2), Ranked(2).changed[i])
          /\ \A i \in DOMAIN Ranked(1).changed :
                \/ InFile(Ranked(1), Ranked(1).changed[i])
                \/ Reverted(Ranked(1), Ranked(2), Ranked(1).changed[i])
    /\ (RaceDone /\ BothLoadedFirst /\ file = Ranked(2).mem) =>
          /\ \A i \in DOMAIN Ranked(2).changed :
                InFile(Ranked(2), Ranked(2).changed[i])
          /\ \A i \in DOMAIN Ranked(1).changed :
                InFile(Ranked(1), Ranked(1).changed[i])
                    => Repeated(Ranked(1), Ranked(2), Ranked(1).changed[i])

\* both read the file before either wrote it, both report their value as
\* added, and the file holds the later writer's value alone
C15_Witness ==
    /\ RaceDone /\ BothLoadedFirst
    /\ Ranked(1).kind = "tags" /\ Ranked(2).kind = "tags"
    /\ Ranked(1).action = "add" /\ Ranked(2).action = "add"
    /\ Ranked(1).changed = <<"a">> /\ Ranked(2).changed = <<"b">>
    /\ file = Ranked(2).mem
    /\ Keys(SectionEntries(file, "tags")) = <<"b">>


\* the values of vs without their repetitions, in the order given
Distinct(vs) == PickIdx(vs, {i \in DOMAIN vs : ~SeenBefore(vs, i)})

Reportings(vs, changed, skipped) ==
    {I \in SUBSET DOMAIN vs :
        changed = PickIdx(vs, I) /\ skipped = PickIdx(vs, DOMAIN vs \ I)}

StoredValue(block, k) ==
    block[CHOOSE i \in DOMAIN block :
              block[i].k = k /\ \A j \in DOMAIN block : block[j].k = k => j <= i].v

\* two stored values are the same value, however they are written
SameValue(a, b) == a.ty = b.ty /\ a.s = b.s /\ a.n = b.n /\ a.items = b.items

\* C18: the block touch wrote holds every key of the stored block and
\* last_update, each once, and no other; last_update holds the timestamp of
\* the second touch ran in; every other key holds the value it was stored
\* with; and categories and tags, when they are lists, hold their elements in
\* their order and are written in flow style, also when they were stored in
\* block style.
C18_TouchChangesOnlyLastUpdate ==
    \A i \in DOMAIN disk :
        report[i].st = "touched" =>
            LET stored  == FrontBlock(report[i].before)
                written == FrontBlock(disk[i])
            IN  /\ Range(Keys(written)) = Range(Keys(stored)) \cup {"last_update"}
                /\ NoDuplicates(Keys(written))
                /\ \A j \in DOMAIN written :
                      /\ written[j].t = "line"
                      /\ IF written[j].k = "last_update"
                         THEN /\ written[j].v.ty = "str" /\ written[j].v.s = "time"
                              /\ written[j].v.n = report[i].at
                         ELSE SameValue(written[j].v, StoredValue(stored, written[j].k))
                      /\ (written[j].k \in {"categories", "tags"} /\ written[j].v.ty = "list")
                            => written[j].v.st = "flow"

C18_Witness ==
    \E i \in DOMAIN disk :
        /\ report[i].st = "touched" /\ report[i].at = 1
        /\ report[i].before = <<Delim, Line("tags", ListVal(<<"d", "c">>, "block")),
                                 Line("extra", StrVal("e", "plain")), Delim>>
        /\ disk[i] = <<Delim, Line("tags", ListVal(<<"d", "c">>, "flow")),
                       Line("extra", StrVal("e", "plain")),
                       Line("last_update", TimeVal(1, "plain")), Delim>>


\* the section a command on kind names, and the other one
Named(kind) == IF kind = "cats" THEN "categories" ELSE "tags"

Other(kind) == IF kind = "cats" THEN "tags" ELSE "categories"

\* what taxonomy file f stores as section: nothing, or the one section
Stored(f, section) ==
    IF HasKey(load_yaml(f), section) THEN <<Get(load_yaml(f), section)>> ELSE <<>>

\* the keys of section in taxonomy file f
StoredKeys(f, section) ==
    IF Stored(f, section) = <<>> THEN {} ELSE Range(Keys(Stored(f, section)[1].entries))

\* C19: a command on one section leaves what the file stores as the other
\* section as it was (its keys, values and order, or its absence); it reports
\* given values only; an add reports a value as changed exactly when it was
\* no key of the named section, and an rm reports as changed only keys of the
\* named section, whatever the other section holds.
C19_OtherSectionUntouched ==
    call.outcome # "none" =>
        /\ Stored(file, Other(call.kind)) = Stored(call.before, Other(call.kind))
        /\ Range(call.changed) \cup Range(call.skipped) \subseteq Range(call.values)
        /\ (call.outcome = "ok" /\ call.action = "add") =>
              /\ Range(call.changed)
                    = Range(call.values) \ StoredKeys(call.before, Named(call.kind))
              /\ StoredKeys(file, Named(call.kind))
                    = StoredKeys(call.before, Named(call.kind)) \cup Range(call.values)
        /\ (call.outcome = "ok" /\ call.action = "rm") =>
              /\ Range(call.changed) \subseteq StoredKeys(call.before, Named(call.kind))
              /\ StoredKeys(file, Named(call.kind))
                    = StoredKeys(call.before, Named(call.kind)) \ Range(call.values)

\* a value that is a key of both sections is removed from one of them
C19_Witness ==
    /\ call.outcome = "ok" /\ call.action = "rm" /\ call.kind = "tags"
    /\ call.values = <<"b">> /\ call.changed = <<"b">>
    /\ "b" \in StoredKeys(call.before, "tags")
    /\ "b" \in StoredKeys(file, "categories")
    /\ "b" \notin StoredKeys(file, "tags")
    /\ Len(Stored(file, "categories")[1].entries) = 2


\* the entries of section in the taxonomy file
EntriesNow(section) ==
    IF Stored(file, section) = <<>> THEN <<>> ELSE Stored(file, section)[1].entries

\* C20: from a taxonomy in which every key is stored with itself as its
\* value, after any adds and rms every key of either section is stored with
\* itself as its value, no key is stored twice in a section, and the keys of
\* a section stand in the order they were last inserted in.
C20_KeysMapToThemselvesInInsertionOrder ==
    \A section \in Sections :
        /\ \A i \in DOMAIN EntriesNow(section) :
              EntriesNow(section)[i].v = EntriesNow(section)[i].k
        /\ DistinctKeys(EntriesNow(section))
        /\ Keys(EntriesNow(section)) = history.order[section]

\* a key that stood first was removed and added again, and stands last
C20_Witness ==
    /\ call.outcome = "ok" /\ call.action = "add" /\ call.kind = "tags"
    /\ call.changed = <<"a">>
    /\ history.removed = <<"tags", "a">>
    /\ Keys(SectionEntries(call.before, "tags")) = <<"b">>
    /\ Keys(EntriesNow("tags")) = <<"b", "a">>
    /\ Keys(EntriesNow("categories")) = <<"a", "b">>

=============================================================================
